---- MODULE Spec2Model ----
(***************************************************************************)
(* Model of pipebomb-sweeper (src/src/main.rs): the Field grid engine and  *)
(* the command loop of main().  One action per key the loop reads; every   *)
(* action runs the whole loop iteration, the end-of-iteration defeat and    *)
(* victory handling included.                                               *)
(***************************************************************************)
EXTENDS Integers, Naturals, Sequences, FiniteSets, TLC

\* ---------------------------------------------------------------- bounds
MaxRows == 2
MaxCols == 4
MaxCells == 4
MaxDraws == 2

\* calls of set_bomb_at after which one `while` loop of randomize is taken
\* not to end (a loop that ends makes at most two)
LoopLimit == 3

\* Command-line densities tried (args[3]); 150 exercises the clamp of new().
Densities == {0, 30, 75, 150}

\* bomb_count of randomize for a grid of r rows and clamped density p
bomb_count_of(r, p) == (r * r * p + 99) \div 100

\* Grid dimensions tried (args[1], args[2]): at most MaxCells cells.
Dims == {d \in (1..MaxRows) \X (1..MaxCols) : d[1] * d[2] <= MaxCells}

\* ---------------------------------------------------------------- state
VARIABLES rows, cols, bomb_pcnt, cells, cursor, quit, victory, game_over, pc, last

vars == <<rows, cols, bomb_pcnt, cells, cursor, quit, victory, game_over, pc, last>>

\* enum State
Open == "Open"
Closed == "Closed"
Flagged == "Flagged"
State == {Open, Closed, Flagged}

\* Cell::empty()
Cell_empty == [state |-> Closed, pipebomb |-> FALSE]

\* index set of Field.cells
Pos == (0 .. rows - 1) \X (0 .. cols - 1)

\* Grid dimensions tried when rows = 0 and cols = 0 are among the arguments.
DimsFromZero == {d \in (0..MaxRows) \X (0..MaxCols) : d[1] * d[2] <= MaxCells}

\* Call depth at which the recursion of check_at exhausts the stack.  In a
\* cascade that ends, of two successive frames at least one has just opened
\* its cell, so it never nests deeper than 2 * cells + 1 calls: only an
\* unbounded recursion reaches the limit.
StackLimit == 2 * rows * cols + 2

\* Field::has_bomb_at
has_bomb_at(g, row, col) == g[<<row, col>>].pipebomb

\* Field::is_cursor_at
is_cursor_at(cur, row, col) == row = cur[1] /\ col = cur[2]

\* set_bomb_at without the is_cursor_at test
set_bomb_at_no_cursor_test(g, cur, row, col) ==
    LET has_bomb == has_bomb_at(g, row, col) IN
    IF ~has_bomb
    THEN [cells |-> [g EXCEPT ![<<row, col>>].pipebomb = TRUE], ret |-> TRUE]
    ELSE [cells |-> g, ret |-> FALSE]

\* Field::set_bomb_at: the grid after the call and the value returned
set_bomb_at(g, cur, row, col) ==
    LET has_bomb == has_bomb_at(g, row, col) IN
    IF ~has_bomb /\ ~is_cursor_at(cur, row, col)
    THEN [cells |-> [g EXCEPT ![<<row, col>>].pipebomb = TRUE], ret |-> TRUE]
    ELSE [cells |-> g, ret |-> FALSE]

\* a loop that repeats the call until the hazard is placed
RECURSIVE place_loop_until_placed(_, _, _, _, _)
place_loop_until_placed(g, cur, row, col, n) ==
    IF n > LoopLimit THEN [cells |-> g, hang |-> TRUE]
    ELSE LET res == set_bomb_at(g, cur, row, col) IN
         IF ~res.ret THEN place_loop_until_placed(res.cells, cur, row, col, n + 1)
         ELSE [cells |-> res.cells, hang |-> FALSE]

\* `while self.set_bomb_at(row, col) {}` of randomize: repeats the call on the
\* same (row, col) until it returns false; n numbers the call.  The value is
\* the grid the loop leaves and whether it goes on beyond LoopLimit calls.
RECURSIVE place_loop(_, _, _, _, _)
place_loop(g, cur, row, col, n) ==
    IF n > LoopLimit THEN [cells |-> g, hang |-> TRUE]
    ELSE LET res == set_bomb_at(g, cur, row, col) IN
         IF res.ret THEN place_loop(res.cells, cur, row, col, n + 1)
         ELSE [cells |-> res.cells, hang |-> FALSE]

\* bomb_count of randomize
bomb_count == bomb_count_of(rows, bomb_pcnt)

\* the grids randomize can leave after i iterations of its placement loop,
\* over every value the random draws can take
RECURSIVE draws(_, _)
draws(i, cur) ==
    IF i = 0
    THEN {[cells |-> [p \in Pos |-> Cell_empty], hang |-> FALSE]}
    ELSE {IF f.hang THEN f ELSE place_loop(f.cells, cur, p[1], p[2], 1) :
            f \in draws(i - 1, cur), p \in Pos}

\* Field::randomize: every grid it can produce, or that it does not return
randomize(cur) == draws(bomb_count, cur)

\* bombs_around without the test that skips the cell itself
bombs_around_counts_self(g, irow, icol) ==
    Cardinality({d \in (-1 .. 1) \X (-1 .. 1) :
        /\ ~(irow + d[1] < 0 \/ irow + d[1] >= rows
             \/ icol + d[2] < 0 \/ icol + d[2] >= cols)
        /\ has_bomb_at(g, irow + d[1], icol + d[2])})

\* Field::bombs_around
bombs_around(g, irow, icol) ==
    Cardinality({d \in (-1 .. 1) \X (-1 .. 1) :
        /\ ~(d[1] = 0 /\ d[2] = 0)
        /\ ~(irow + d[1] < 0 \/ irow + d[1] >= rows
             \/ icol + d[2] < 0 \/ icol + d[2] >= cols)
        /\ has_bomb_at(g, irow + d[1], icol + d[2])})

\* the string constants of the renderer
PIPEBOMB == "@"

\* u8::to_string: the decimal digits of n, most significant first
RECURSIVE to_string(_)
to_string(n) ==
    LET digit == <<"0", "1", "2", "3", "4", "5", "6", "7", "8", "9">>[(n % 10) + 1]
    IN IF n < 10 THEN digit ELSE to_string(n \div 10) \o digit

\* Field::cell_str_at: what the renderer prints for an Open cell; it counts
\* the hazards around the cell with its own copy of the loop of bombs_around
cell_str_at(g, row, col) ==
    IF has_bomb_at(g, row, col) THEN PIPEBOMB
    ELSE LET cell_bomb_count ==
                 Cardinality({d \in (-1 .. 1) \X (-1 .. 1) :
                     /\ ~(d[1] = 0 /\ d[2] = 0)
                     /\ ~(row + d[1] < 0 \/ row + d[1] >= rows
                          \/ col + d[2] < 0 \/ col + d[2] >= cols)
                     /\ has_bomb_at(g, row + d[1], col + d[2])})
         IN IF cell_bomb_count > 0 THEN to_string(cell_bomb_count) ELSE " "

\* Field::out_of_bounds
out_of_bounds(irow, icol) ==
    <<irow < 0 \/ irow >= rows, icol < 0 \/ icol >= cols>>

\* Field::open_at
open_at(g, row, col) == [g EXCEPT ![<<row, col>>].state = Open]

\* the eight recursive calls of check_at, in source order: the offset of the
\* callee and which of negative_oob.0, negative_oob.1, positive_oob.0,
\* positive_oob.1 guard it
Calls == <<
    [dr |-> -1, dc |->  0, n0 |-> TRUE,  n1 |-> FALSE, p0 |-> FALSE, p1 |-> FALSE],
    [dr |->  0, dc |-> -1, n0 |-> FALSE, n1 |-> TRUE,  p0 |-> FALSE, p1 |-> FALSE],
    [dr |->  1, dc |->  0, n0 |-> FALSE, n1 |-> FALSE, p0 |-> TRUE,  p1 |-> FALSE],
    [dr |->  0, dc |->  1, n0 |-> FALSE, n1 |-> FALSE, p0 |-> FALSE, p1 |-> TRUE],
    [dr |-> -1, dc |-> -1, n0 |-> TRUE,  n1 |-> TRUE,  p0 |-> FALSE, p1 |-> FALSE],
    [dr |->  1, dc |-> -1, n0 |-> FALSE, n1 |-> TRUE,  p0 |-> TRUE,  p1 |-> FALSE],
    [dr |-> -1, dc |->  1, n0 |-> TRUE,  n1 |-> FALSE, p0 |-> FALSE, p1 |-> TRUE],
    [dr |->  1, dc |->  1, n0 |-> FALSE, n1 |-> FALSE, p0 |-> TRUE,  p1 |-> TRUE] >>

RECURSIVE check_at_rec(_, _, _, _), check_calls(_, _, _, _, _)

\* check_at without the early return at a hazard cell
check_at_rec_no_hazard_test(f, row, col, depth) ==
    IF f.overflow THEN f
    ELSE IF depth > StackLimit THEN [f EXCEPT !.overflow = TRUE]
    ELSE IF bombs_around(f.cells, row, col) > 0
         THEN [f EXCEPT !.cells = open_at(f.cells, row, col)]
    ELSE IF f.cells[<<row, col>>].state = Open THEN f
    ELSE IF f.cells[<<row, col>>].state = Closed
         THEN check_calls([f EXCEPT !.cells = open_at(f.cells, row, col)],
                          row, col, 1, depth)
    ELSE check_calls(f, row, col, 1, depth)

\* check_at that returns at a cell with hazards around it without open_at
check_at_rec_numbered_not_opened(f, row, col, depth) ==
    IF f.overflow THEN f
    ELSE IF depth > StackLimit THEN [f EXCEPT !.overflow = TRUE]
    ELSE IF f.cells[<<row, col>>].pipebomb THEN f
    ELSE IF bombs_around(f.cells, row, col) > 0 THEN f
    ELSE IF f.cells[<<row, col>>].state = Open THEN f
    ELSE IF f.cells[<<row, col>>].state = Closed
         THEN check_calls([f EXCEPT !.cells = open_at(f.cells, row, col)],
                          row, col, 1, depth)
    ELSE check_calls(f, row, col, 1, depth)

\* check_at whose Closed arm forgets open_at
check_at_rec_closed_not_opened(f, row, col, depth) ==
    IF f.overflow THEN f
    ELSE IF depth > StackLimit THEN [f EXCEPT !.overflow = TRUE]
    ELSE IF f.cells[<<row, col>>].pipebomb THEN f
    ELSE IF bombs_around(f.cells, row, col) > 0
         THEN [f EXCEPT !.cells = open_at(f.cells, row, col)]
    ELSE IF f.cells[<<row, col>>].state = Open THEN f
    ELSE check_calls(f, row, col, 1, depth)

\* Field::check_at at call depth `depth`.  The value is the grid when the call
\* returns and whether the recursion ran out of stack instead of returning.
check_at_rec(f, row, col, depth) ==
    IF f.overflow THEN f
    ELSE IF depth > StackLimit THEN [f EXCEPT !.overflow = TRUE]
    ELSE IF f.cells[<<row, col>>].pipebomb THEN f
    ELSE IF bombs_around(f.cells, row, col) > 0
         THEN [f EXCEPT !.cells = open_at(f.cells, row, col)]
    ELSE IF f.cells[<<row, col>>].state = Open THEN f
    ELSE IF f.cells[<<row, col>>].state = Closed
         THEN check_calls([f EXCEPT !.cells = open_at(f.cells, row, col)],
                          row, col, 1, depth)
    ELSE check_calls(f, row, col, 1, depth)

\* lines 217-258 of check_at: the recursive calls from number k on
check_calls(f, row, col, k, depth) ==
    IF k > Len(Calls) \/ f.overflow THEN f
    ELSE LET positive_oob == out_of_bounds(row + 1, col + 1)
             negative_oob == out_of_bounds(row - 1, col - 1)
             c == Calls[k]
             taken == /\ (c.n0 => ~negative_oob[1])
                      /\ (c.n1 => ~negative_oob[2])
                      /\ (c.p0 => ~positive_oob[1])
                      /\ (c.p1 => ~positive_oob[2])
         IN check_calls(IF taken
                        THEN check_at_rec(f, row + c.dr, col + c.dc, depth + 1)
                        ELSE f,
                        row, col, k + 1, depth)

\* Field::check_at called from open_at_cursor or main
check_at(g, row, col) == check_at_rec([cells |-> g, overflow |-> FALSE], row, col, 1)

\* open_at_cursor that reports a hazard only when it called check_at
open_at_cursor_declined_safe(g, cur, answer) ==
    LET row == cur[1]
        col == cur[2]
        called == \/ g[<<row, col>>].state = Closed
                  \/ g[<<row, col>>].state = Flagged /\ answer = "y"
        f == IF called THEN check_at(g, row, col)
             ELSE [cells |-> g, overflow |-> FALSE]
    IN [cells |-> f.cells, overflow |-> f.overflow,
        ret |-> called /\ f.cells[<<row, col>>].pipebomb]

\* Field::open_at_cursor; `answer` is the Y/N key read when the cell is Flagged
open_at_cursor(g, cur, answer) ==
    LET row == cur[1]
        col == cur[2]
        f == IF g[<<row, col>>].state = Closed THEN check_at(g, row, col)
             ELSE IF g[<<row, col>>].state = Flagged /\ answer = "y"
                  THEN check_at(g, row, col)
             ELSE [cells |-> g, overflow |-> FALSE]
    IN [cells |-> f.cells, overflow |-> f.overflow,
        ret |-> f.cells[<<row, col>>].pipebomb]

\* flag_at_cursor that never takes a flag back
flag_at_cursor_one_way(g, cur) ==
    IF g[cur].state = Closed THEN [g EXCEPT ![cur].state = Flagged]
    ELSE g

\* flag_at_cursor whose last match arm closes the cell
flag_at_cursor_closes_open(g, cur) ==
    IF g[cur].state = Closed THEN [g EXCEPT ![cur].state = Flagged]
    ELSE [g EXCEPT ![cur].state = Closed]

\* Field::flag_at_cursor
flag_at_cursor(g, cur) ==
    IF g[cur].state = Closed THEN [g EXCEPT ![cur].state = Flagged]
    ELSE IF g[cur].state = Flagged THEN [g EXCEPT ![cur].state = Closed]
    ELSE g

\* dec_cursor that wraps to the far edge at coordinate 0
dec_cursor_wraps(cur, o) ==
    IF o = "Vertical"
    THEN (IF cur[1] > 0 THEN <<cur[1] - 1, cur[2]>> ELSE <<rows - 1, cur[2]>>)
    ELSE (IF cur[2] > 0 THEN <<cur[1], cur[2] - 1>> ELSE <<cur[1], cols - 1>>)

\* Field::dec_cursor; o is "Vertical" or "Horizontal"
dec_cursor(cur, o) ==
    IF o = "Vertical"
    THEN (IF cur[1] > 0 THEN <<cur[1] - 1, cur[2]>> ELSE cur)
    ELSE (IF cur[2] > 0 THEN <<cur[1], cur[2] - 1>> ELSE cur)

\* Field::inc_cursor.  `self.rows - 1` is a usize: with rows = 0 it wraps to
\* usize::MAX where the build does not check overflow, and every coordinate
\* is below that (KeyS and KeyD hold the panic of the build that checks).
inc_cursor(cur, o) ==
    IF o = "Vertical"
    THEN (IF rows = 0 \/ cur[1] < rows - 1 THEN <<cur[1] + 1, cur[2]>> ELSE cur)
    ELSE (IF cols = 0 \/ cur[2] < cols - 1 THEN <<cur[1], cur[2] + 1>> ELSE cur)

\* reveal_mines that opens every cell
reveal_mines_every_cell(g) ==
    [p \in DOMAIN g |-> [g[p] EXCEPT !.state = Open]]

\* Field::reveal_mines
reveal_mines(g) ==
    [p \in DOMAIN g |-> IF g[p].pipebomb THEN [g[p] EXCEPT !.state = Open] ELSE g[p]]

\* victory scan that also wants the hazard cells Open
RECURSIVE victory_scan_every_cell(_, _)
victory_scan_every_cell(g, k) ==
    IF k >= rows * cols THEN TRUE
    ELSE LET p == <<k \div cols, k % cols>> IN
         IF g[p].state # Open THEN FALSE
         ELSE victory_scan_every_cell(g, k + 1)

\* Field::victory: row-major scan from cell number k, false at the first
\* hazard-free cell that is not Open
RECURSIVE victory_scan(_, _)
victory_scan(g, k) ==
    IF k >= rows * cols THEN TRUE
    ELSE LET p == <<k \div cols, k % cols>> IN
         IF ~g[p].pipebomb /\ g[p].state # Open THEN FALSE
         ELSE victory_scan(g, k + 1)

field_victory(g) == victory_scan(g, 0)

\* ---------------------------------------------------------------- actions
\* Field::new and the locals of main before the first randomize, for
\* dimensions taken from D
InitWith(D) ==
    \E d \in D, p \in Densities :
        /\ bomb_count_of(d[1], IF p > 100 THEN 100 ELSE p) <= MaxDraws
        /\ rows = d[1]
        /\ cols = d[2]
        /\ bomb_pcnt = (IF p > 100 THEN 100 ELSE p)
        /\ cells = [q \in (0 .. d[1] - 1) \X (0 .. d[2] - 1) |-> Cell_empty]
        /\ cursor = <<0, 0>>
        /\ quit = FALSE
        /\ victory = FALSE
        /\ game_over = FALSE
        /\ pc = "new"
        /\ last = "new"

\* grids of at least 1x1
Init == InitWith(Dims)

\* grids of any dimensions, 0 included
InitAnyDims == InitWith(DimsFromZero)

\* the process panics: a Vec indexed out of bounds, an empty range given to
\* gen_range, a usize subtraction that overflows in a build that checks
Panic(key) ==
    /\ pc' = "panic"
    /\ last' = key
    /\ UNCHANGED <<rows, cols, bomb_pcnt, cells, cursor, quit, victory, game_over>>

\* randomize panics in gen_range(0..0) at its first draw
randomize_panics == bomb_count > 0 /\ (rows = 0 \/ cols = 0)

\* randomize does not return: the process hangs in its `while` loop
Hang(key) ==
    /\ pc' = "hang"
    /\ last' = key
    /\ UNCHANGED <<rows, cols, bomb_pcnt, cells, cursor, quit, victory, game_over>>

\* main, lines 405-409: the first randomize
Start ==
    /\ pc = "new"
    /\ IF randomize_panics THEN Panic("start")
       ELSE \E f \in randomize(cursor) :
        IF f.hang THEN Hang("start")
        ELSE /\ cells' = f.cells
             /\ pc' = "loop"
             /\ last' = "start"
             /\ UNCHANGED <<rows, cols, bomb_pcnt, cursor, quit, victory, game_over>>

\* main, lines 461-470: the end of a loop iteration, after the command left
\* grid g, cursor cur and defeat flag over
EndOfIteration(g, cur, over, q, key) ==
    LET g1 == IF over THEN reveal_mines(g) ELSE g
        won == field_victory(g1)
        g2 == IF won THEN reveal_mines(g1) ELSE g1
    IN /\ cells' = g2
       /\ cursor' = cur
       /\ game_over' = over
       /\ victory' = (victory \/ won)
       /\ quit' = (q \/ over \/ won)
       /\ pc' = (IF q \/ over \/ won THEN "exit" ELSE "loop")
       /\ last' = key
       /\ UNCHANGED <<rows, cols, bomb_pcnt>>

\* the process aborts on stack overflow inside check_at
Abort(key) ==
    /\ pc' = "abort"
    /\ last' = key
    /\ UNCHANGED <<rows, cols, bomb_pcnt, cells, cursor, quit, victory, game_over>>

\* 'A' | 'a'
KeyA == pc = "loop" /\ EndOfIteration(cells, dec_cursor(cursor, "Horizontal"), game_over, quit, "move")
\* 'W' | 'w'
KeyW == pc = "loop" /\ EndOfIteration(cells, dec_cursor(cursor, "Vertical"), game_over, quit, "move")
\* 'S' | 's'
KeyS ==
    /\ pc = "loop"
    /\ \/ EndOfIteration(cells, inc_cursor(cursor, "Vertical"), game_over, quit, "move")
       \/ rows = 0 /\ Panic("move")
\* 'D' | 'd'
KeyD ==
    /\ pc = "loop"
    /\ \/ EndOfIteration(cells, inc_cursor(cursor, "Horizontal"), game_over, quit, "move")
       \/ cols = 0 /\ Panic("move")
\* 'F' | 'f'
KeyF ==
    /\ pc = "loop"
    /\ IF cursor \notin Pos THEN Panic("flag")
       ELSE EndOfIteration(flag_at_cursor(cells, cursor), cursor, game_over, quit, "flag")

\* ' ': open_at_cursor, then check_at again when it returned false
SpaceWith(answer, key) ==
    LET o == open_at_cursor(cells, cursor, answer)
        f == IF o.overflow \/ o.ret THEN [cells |-> o.cells, overflow |-> o.overflow]
             ELSE check_at(o.cells, cursor[1], cursor[2])
    IN IF f.overflow THEN Abort(key)
       ELSE EndOfIteration(f.cells, cursor, game_over \/ o.ret, quit, key)

KeySpace ==
    /\ pc = "loop"
    /\ IF cursor \notin Pos THEN Panic("space")
       ELSE IF cells[cursor].state = Flagged
       THEN \/ SpaceWith("y", "space_y")
            \/ SpaceWith("n", "space_n")
       ELSE SpaceWith("-", "space")

\* 'R' | 'r' answered Y or N
KeyR ==
    /\ pc = "loop"
    /\ \/ randomize_panics /\ Panic("reset")
       \/ \E f \in randomize(cursor) :
            IF f.hang THEN Hang("reset")
            ELSE EndOfIteration(f.cells, cursor, game_over, quit, "reset")
       \/ EndOfIteration(cells, cursor, game_over, quit, "noop")

\* 'Q' | 'q' answered Y or N
KeyQ ==
    /\ pc = "loop"
    /\ \/ EndOfIteration(cells, cursor, game_over, TRUE, "quit")
       \/ EndOfIteration(cells, cursor, game_over, quit, "noop")

\* an unrecognized key that ends the loop
KeyOther_quits == pc = "loop" /\ EndOfIteration(cells, cursor, game_over, TRUE, "noop")

\* any other key
KeyOther == pc = "loop" /\ EndOfIteration(cells, cursor, game_over, quit, "noop")

Next == Start \/ KeyA \/ KeyW \/ KeyS \/ KeyD \/ KeyF \/ KeySpace \/ KeyR \/ KeyQ \/ KeyOther

Spec == Init /\ [][Next]_vars

\* The 3x3 grid whose only hazard is at (0,0), every cell Closed: the game
\* right after a confirmed reset whose one draw (density 10) was (0,0),
\* with the cursor on any other cell.
InitFixture ==
    /\ rows = 3
    /\ cols = 3
    /\ bomb_pcnt = 10
    /\ cells = [q \in (0 .. 2) \X (0 .. 2) |->
                    [Cell_empty EXCEPT !.pipebomb = (q = <<0, 0>>)]]
    /\ cursor \in ((0 .. 2) \X (0 .. 2)) \ {<<0, 0>>}
    /\ quit = FALSE
    /\ victory = FALSE
    /\ game_over = FALSE
    /\ pc = "loop"
    /\ last = "reset"

\* the commands that keep the hazard layout and set no flag
NextFixture == KeyA \/ KeyW \/ KeyS \/ KeyD \/ KeySpace \/ KeyQ \/ KeyOther

SpecFixture == InitFixture /\ [][NextFixture]_vars

\* the same program started with any dimensions
SpecAnyDims == InitAnyDims /\ [][Next]_vars

TypeOK ==
    /\ cursor \in Pos
    /\ pc \in {"new", "loop", "exit", "abort", "hang", "panic"}
    /\ last \in {"new", "start", "move", "flag", "space", "space_y", "space_n",
                 "reset", "noop", "quit"}
    /\ \A p \in Pos : cells[p].state \in State

\* ---------------------------------------------------------------- claims
\* the hazard cells of grid g
Hazards(g) == {p \in DOMAIN g : g[p].pipebomb}

\* p and q are distinct cells at 8-directional distance 1
Adjacent(p, q) ==
    /\ p # q
    /\ p[1] - q[1] \in -1 .. 1
    /\ p[2] - q[2] \in -1 .. 1

\* hazard-free cell of g with no hazard around it
ZeroCell(g, p) == ~g[p].pipebomb /\ Hazards(g) \cap {q \in DOMAIN g : Adjacent(p, q)} = {}

\* the zero cells of g reachable from the cells of S through zero cells
RECURSIVE ZeroRegion(_, _)
ZeroRegion(g, S) ==
    LET T == S \cup {q \in DOMAIN g : ZeroCell(g, q) /\ \E p \in S : Adjacent(p, q)}
    IN IF T = S THEN S ELSE ZeroRegion(g, T)

\* every hazard-free cell of g is Open
AllSafeOpen(g) == \A p \in DOMAIN g : ~g[p].pipebomb => g[p].state = Open

\* the step is an open command (space key), whatever the confirmation
OpenStep == last' \in {"space", "space_y", "space_n"}

\* C1: every reveal started by an open command returns: the recursion of
\* check_at never runs out of stack.
C1_RevealTerminates == pc # "abort"

\* C2: a reveal that returns leaves every cell that was Flagged before it,
\* other than its target, Flagged (steps after which the game goes on, so
\* that nothing but check_at wrote the grid).
C2_CascadeKeepsFlags ==
    [][(OpenStep /\ pc' = "loop") =>
        \A p \in Pos \ {cursor} :
            cells[p].state = Flagged => cells'[p].state = Flagged]_vars

\* C3: an open command on a Flagged cursor cell answered N changes no cell.
C3_DeclinedOpenChangesNothing ==
    [][last' = "space_n" => cells' = cells]_vars

\* C4: an open command answered Y on a Flagged hazard-free cursor cell leaves
\* the grid a reveal of the same cell, had it been Closed, leaves, and the
\* cursor cell Open.
C4_ConfirmedOpenIsReveal ==
    [][(last' = "space_y" /\ ~cells[cursor].pipebomb /\ pc' # "abort") =>
        LET asClosed == check_at([cells EXCEPT ![cursor].state = Closed],
                                 cursor[1], cursor[2])
        IN /\ cells'[cursor].state = Open
           /\ (pc' = "loop" /\ ~asClosed.overflow) => cells' = asClosed.cells]_vars

\* C5: right after randomize the number of hazards is bomb_count whenever
\* bomb_count is at most rows * cols - 1, and never more than bomb_count.
C5_HazardCount ==
    last \in {"start", "reset"} =>
        /\ Cardinality(Hazards(cells)) <= bomb_count
        /\ bomb_count <= rows * cols - 1 => Cardinality(Hazards(cells)) = bomb_count

\* C6: every randomize (the first one and each confirmed reset) leaves the
\* cursor where it was and puts no hazard on the cell under it.
C6_CursorCellSafeAfterRandomize ==
    [][last' \in {"start", "reset"} =>
        /\ cursor' = cursor
        /\ ~cells'[cursor'].pipebomb]_vars

\* C6 witness: a confirmed reset with the cursor moved off (0,0) has placed
\* a hazard somewhere else.
C6_Witness ==
    /\ last = "reset"
    /\ cursor # <<0, 0>>
    /\ Hazards(cells) # {}

\* C7: a reveal of a Closed hazard-free cell that returns opens, when the
\* cell has no hazard around it, every Closed cell of its zero region and
\* every Closed hazard-free cell next to that region, and otherwise changes
\* no hazard-free cell but its target.
C7_CascadeOpensRegion ==
    [][(last' = "space" /\ cells[cursor].state = Closed /\ ~cells[cursor].pipebomb
            /\ pc' # "abort") =>
        IF ZeroCell(cells, cursor)
        THEN LET region == ZeroRegion(cells, {cursor}) IN
             \A p \in Pos :
                (/\ cells[p].state = Closed
                 /\ ~cells[p].pipebomb
                 /\ (p \in region \/ \E q \in region : Adjacent(p, q)))
                => cells'[p].state = Open
        ELSE /\ cells'[cursor].state = Open
             /\ \A p \in Pos \ {cursor} :
                    ~cells[p].pipebomb => cells'[p] = cells[p]]_vars

\* C8: victory() is true exactly when every hazard-free cell is Open; the
\* victory flag of the loop is set exactly then, and it is first set by the
\* open command that opens the last hazard-free cell, which ends the session.
C8_VictoryIffAllSafeOpen ==
    [][/\ field_victory(cells) <=> AllSafeOpen(cells)
       /\ field_victory(cells') <=> AllSafeOpen(cells')
       /\ victory' <=> AllSafeOpen(cells')
       /\ (~victory /\ victory') =>
            /\ OpenStep
            /\ quit' /\ pc' = "exit" /\ ~game_over'
            /\ \E p \in Pos : /\ ~cells[p].pipebomb
                               /\ cells[p].state # Open
                               /\ cells'[p].state = Open]_vars

\* C8 witness: the session has ended in victory on a grid that holds a
\* hazard and more than one hazard-free cell.
C8_Witness ==
    /\ victory
    /\ pc = "exit"
    /\ Hazards(cells) # {}
    /\ Cardinality(Pos \ Hazards(cells)) > 1

\* C9: except in a randomize, no step takes a cell out of Open.
C9_OpenIsFinal ==
    [][last' \notin {"start", "reset"} =>
        \A p \in Pos : cells[p].state = Open => cells'[p].state = Open]_vars

\* C9 witness: the flag command has just run on an Open cursor cell.
C9_Witness ==
    /\ last = "flag"
    /\ cells[cursor].state = Open

\* C10: the cursor stays inside the grid; a move command changes its one
\* coordinate by one, and leaves the cursor alone at the edge it faces.
C10_CursorClamped ==
    [][/\ cursor' \in Pos
       /\ KeyW => cursor' = IF cursor[1] = 0 THEN cursor
                            ELSE <<cursor[1] - 1, cursor[2]>>
       /\ KeyS => cursor' = IF cursor[1] = rows - 1 THEN cursor
                            ELSE <<cursor[1] + 1, cursor[2]>>
       /\ KeyA => cursor' = IF cursor[2] = 0 THEN cursor
                            ELSE <<cursor[1], cursor[2] - 1>>
       /\ KeyD => cursor' = IF cursor[2] = cols - 1 THEN cursor
                            ELSE <<cursor[1], cursor[2] + 1>>
       /\ last' # "move" => cursor' = cursor]_vars

\* C10 witness: a move command has left the cursor on the last row and the
\* last column of a grid with more than one row and more than one column.
C10_Witness ==
    /\ last = "move"
    /\ rows > 1 /\ cols > 1
    /\ cursor = <<rows - 1, cols - 1>>

\* C11: the flag command writes the state of the cursor cell only, Closed to
\* Flagged and Flagged to Closed, leaves an Open cursor cell as it is, and a
\* second flag command gives back the grid the first one found.
C11_FlagToggles ==
    [][last' = "flag" =>
        /\ cursor' = cursor
        /\ \A p \in Pos \ {cursor} : cells'[p] = cells[p]
        /\ cells'[cursor].pipebomb = cells[cursor].pipebomb
        /\ cells[cursor].state = Closed => cells'[cursor].state = Flagged
        /\ cells[cursor].state = Flagged => cells'[cursor].state = Closed
        /\ cells[cursor].state = Open => cells' = cells
        /\ flag_at_cursor(cells', cursor') = cells]_vars

\* C11 witness: the flag command has just taken the flag off the cursor cell
\* while another cell keeps its flag.
C11_Witness ==
    /\ last = "flag"
    /\ cells[cursor].state = Closed
    /\ \E p \in Pos \ {cursor} : cells[p].state = Flagged

\* C12: a reveal of an Open cell changes no cell and returns, at every cell
\* of every grid the game reaches; an open command on an Open cursor cell
\* changes nothing, and after the reveal of a Closed hazard-free cursor cell
\* the second check_at of the loop finds the cell Open and changes nothing.
C12_RevealOfOpenIsNoOp ==
    [][/\ \A p \in Pos : cells'[p].state = Open =>
            check_at(cells', p[1], p[2]) = [cells |-> cells', overflow |-> FALSE]
       /\ (last' = "space" /\ cells[cursor].state = Open) => cells' = cells
       /\ (last' = "space" /\ cells[cursor].state = Closed
                /\ ~cells[cursor].pipebomb /\ pc' # "abort") =>
            LET first == check_at(cells, cursor[1], cursor[2]) IN
            /\ first.cells[cursor].state = Open
            /\ check_at(first.cells, cursor[1], cursor[2]) = first
            /\ pc' = "loop" => cells' = first.cells]_vars

\* C12 witness: after an open command the game goes on with the cursor on an
\* Open cell with no hazard around it and a cell next to it still unopened.
C12_Witness ==
    /\ last = "space"
    /\ pc = "loop"
    /\ cells[cursor].state = Open
    /\ ZeroCell(cells, cursor)
    /\ \E p \in Pos : Adjacent(p, cursor) /\ cells[p].state # Open

\* C13: an open command sets the defeat flag exactly when the cursor cell
\* holds a hazard, whatever the state of the cell and the answer to the
\* confirmation; the reveal of a hazard cell changes no cell, and the grid
\* of the lost game differs from the grid before only by reveal_mines.
C13_DefeatIffHazard ==
    [][OpenStep =>
        /\ game_over' <=> cells[cursor].pipebomb
        /\ cells[cursor].pipebomb =>
            /\ check_at(cells, cursor[1], cursor[2]) = [cells |-> cells, overflow |-> FALSE]
            /\ cells' = reveal_mines(cells)
            /\ pc' = "exit" /\ quit' /\ ~victory']_vars

\* C13 witness: the game is lost by an open command on a Flagged hazard
\* cell whose confirmation was declined.
C13_Witness ==
    /\ last = "space_n"
    /\ game_over
    /\ cells[cursor].pipebomb

\* C14: an unrecognized key, and a reset or a quit answered N, change no
\* cell, no hazard, no cursor coordinate and no flag of the loop, and the
\* loop goes on.
C14_InvalidInputAbsorbed ==
    [][(last' = "noop" \/ KeyOther) =>
        /\ UNCHANGED <<rows, cols, bomb_pcnt, cells, cursor, quit, victory, game_over>>
        /\ pc' = "loop"
        /\ ~quit']_vars

\* C14 witness: such a key has been read in a game that holds an Open cell,
\* a Flagged cell and a hazard.
C14_Witness ==
    /\ last = "noop"
    /\ \E p \in Pos : cells[p].state = Open
    /\ \E p \in Pos : cells[p].state = Flagged
    /\ Hazards(cells) # {}

\* C15: randomize returns, whatever the grid, the density, the cursor and
\* the cells the draws select: none of its `while` loops goes on for ever.
C15_RandomizeTerminates == pc # "hang"

\* C15 witness: a confirmed reset with the cursor moved off (0,0) has run
\* more draws than there are cells beside the cursor and has filled them all.
C15_Witness ==
    /\ last = "reset"
    /\ cursor # <<0, 0>>
    /\ bomb_count > rows * cols - 1
    /\ Cardinality(Hazards(cells)) = rows * cols - 1

\* C16: with rows = 0 or cols = 0 among the arguments too, no operation
\* panics on an index or on a subtraction, and the grid the game runs on
\* (a rejected construction runs no game) has at least one row and one
\* column, with the cursor on one of its cells.
C16_DegenerateDimsSafe ==
    /\ pc # "panic"
    /\ pc # "new" => (rows >= 1 /\ cols >= 1 /\ cursor \in Pos)

\* C17: on the 3x3 grid whose only hazard is at (0,0), every cell Closed, the
\* reveal of (2,2) returns with (1,1), (1,2), (2,1), (2,2), (0,1) and (1,0)
\* Open and (0,0) Closed; the open command that runs it wins the game, and
\* the grid it leaves differs from that of the reveal only by reveal_mines.
C17_FixtureCascade ==
    [][(/\ last' = "space"
        /\ rows = 3 /\ cols = 3
        /\ Hazards(cells) = {<<0, 0>>}
        /\ \A p \in Pos : cells[p].state = Closed
        /\ cursor = <<2, 2>>) =>
        LET r == check_at(cells, 2, 2) IN
        /\ ~r.overflow
        /\ \A p \in {<<1, 1>>, <<1, 2>>, <<2, 1>>, <<2, 2>>, <<0, 1>>, <<1, 0>>} :
                r.cells[p].state = Open
        /\ r.cells[<<0, 0>>].state = Closed
        /\ cells' = reveal_mines(r.cells)
        /\ victory']_vars

\* C17 witness: the open command at (2,2) has ended the game on the 3x3 grid
\* with the hazard at (0,0).
C17_Witness ==
    /\ rows = 3 /\ cols = 3
    /\ Hazards(cells) = {<<0, 0>>}
    /\ last = "space"
    /\ cursor = <<2, 2>>
    /\ pc = "exit"
    /\ \A p \in Pos : cells[p].state = Open

\* C18: while the game is in progress no hazard cell is Open; a reveal leaves
\* the state of every hazard cell as it was; and only randomize (at the start
\* and on a confirmed reset) changes which cells hold a hazard.
C18_HazardsStayHidden ==
    [][/\ pc' = "loop" => \A p \in Hazards(cells') : cells'[p].state # Open
       /\ (OpenStep /\ cursor \in Pos) =>
              LET r == check_at(cells, cursor[1], cursor[2]) IN
              \A p \in Hazards(cells) :
                  /\ r.cells[p].pipebomb
                  /\ r.cells[p].state = cells[p].state
       /\ last' \notin {"start", "reset"} => Hazards(cells') = Hazards(cells)]_vars

\* C18 witness: a game in progress after an open command, with an Open cell,
\* a flagged hazard and a second hazard that is Closed.
C18_Witness ==
    /\ pc = "loop"
    /\ last = "space"
    /\ \E p \in Pos : cells[p].state = Open
    /\ \E p, q \in Hazards(cells) :
           cells[p].state = Flagged /\ cells[q].state = Closed

\* the decimal numerals of the counts a cell can have
Numeral == <<"1", "2", "3", "4", "5", "6", "7", "8">>

\* the hazard cells of g at 8-directional distance 1 of p
HazardsAround(g, p) == {q \in DOMAIN g : Adjacent(p, q) /\ g[q].pipebomb}

\* C19: for every cell, bombs_around is the number of hazard cells of the grid
\* at 8-directional distance exactly 1 (the cell itself and positions outside
\* the grid are not counted), and cell_str_at prints the hazard mark for a
\* hazard cell, a blank for that count being 0 and its numeral otherwise.
C19_AdjacencyCount ==
    \A p \in Pos :
        LET n == Cardinality(HazardsAround(cells, p)) IN
        /\ bombs_around(cells, p[1], p[2]) = n
        /\ cell_str_at(cells, p[1], p[2]) =
               IF cells[p].pipebomb THEN "@"
               ELSE IF n = 0 THEN " " ELSE Numeral[n]

\* C19 witness: a game in progress with an Open cell that has two hazards
\* around it, printed as "2", next to a hazard cell that has a hazard around it.
C19_Witness ==
    /\ pc = "loop"
    /\ \E p \in Pos :
           /\ cells[p].state = Open
           /\ bombs_around(cells, p[1], p[2]) = 2
           /\ cell_str_at(cells, p[1], p[2]) = "2"
    /\ \E q \in Hazards(cells) : HazardsAround(cells, q) # {}

\* C20: game_over and victory are never both set; right after randomize (at
\* the start and on a confirmed reset) victory() is false and the victory flag
\* is clear; the victory flag is set only by an open command.
C20_OutcomesExclusive ==
    /\ ~(game_over /\ victory)
    /\ last \in {"start", "reset"} => (~field_victory(cells) /\ ~victory)
    /\ victory => last \in {"space", "space_y", "space_n"}

\* C20 witness: a lost game: the open command hit a hazard while a
\* hazard-free cell was already Open, and victory is not set.
C20_Witness ==
    /\ pc = "exit"
    /\ game_over
    /\ ~victory
    /\ cells[cursor].pipebomb
    /\ \E p \in Pos : ~cells[p].pipebomb /\ cells[p].state = Open
====
